---- MODULE Spec2Model ----
(***************************************************************************)
(* Voting backend (server.js): the HTTP handlers that touch shared state,  *)
(* over the document store (collections "voters" and "candidates") and     *)
(* the identity platform (id tokens, custom claims).                       *)
(*                                                                         *)
(* Each inbound request is one slot r.  A handler runs atomically between  *)
(* two awaits (single-threaded dispatch); the awaits of the voting         *)
(* transaction are the interleaving points.                                *)
(*                                                                         *)
(* db.runTransaction is the store's serializable read-modify-write: the    *)
(* reads of an attempt are validated at commit (Fresh); an attempt whose   *)
(* reads went stale, or that contends with another transaction in flight   *)
(* on a document both have read (Contended), may be aborted; an aborted    *)
(* attempt is rolled back and the callback is run again, at most           *)
(* MaxAttempts times in all, and then the store's error is thrown.  An     *)
(* Error thrown by the callback itself is rethrown without a retry.        *)
(*                                                                         *)
(* Not modelled: the LinkedIn routes and GET / (they touch neither the     *)
(* store nor the claims), the rate limiter, and the fields name,           *)
(* linkedInProfile and votedAt of a voter record (nothing reads them back  *)
(* in a decision).  The bodies of the two list responses are abstracted    *)
(* to a token.                                                             *)
(***************************************************************************)
EXTENDS Naturals, FiniteSets, TLC

VARIABLES
  voters,      \* collection "voters": subject id -> voter record
  candidates,  \* collection "candidates": candidate id -> vote count
  claims,      \* identity platform: subject id -> has the custom claim admin
  pc,          \* per request: "idle", "getVoter", "getCand", "commit", "done"
  req,         \* per request: route, Authorization header, body field read
  user,        \* per request: req.user, the decoded token (NoUser before/without it)
  attempts,    \* per request: number of the transaction attempt under way
  snap,        \* per request: the candidate's votes as read by this attempt
  resp         \* per request: the HTTP response sent (NoResp before)

vars == <<voters, candidates, claims, pc, req, user, attempts, snap, resp>>

----------------------------------------------------------------------------
(* Bounds of the model *)

NumReq == 2

(* runTransaction is called with no options: the store client's default
   number of attempts *)
MaxAttempts == 5

Requests == 1..NumReq
Subjects == {"u1", "u2"}
CandidateIds == {"A", "B"}

\* the candidates collection as seeded out-of-band, before the server runs
Seeded == [c \in CandidateIds |-> IF c = "A" THEN 0 ELSE 1]

\* who holds the admin claim before the server runs: nobody, or one subject
InitialAdmins == {{}, {"u1"}}

----------------------------------------------------------------------------
(* Inputs *)

\* the Authorization header: absent, a non-Bearer scheme, a Bearer credential
NoHeader == [scheme |-> "", credential |-> ""]
Headers ==
  { NoHeader,
    [scheme |-> "Basic ", credential |-> "tok-u1"],
    [scheme |-> "Bearer ", credential |-> "expired"],
    [scheme |-> "Bearer ", credential |-> "tok-u1"],
    [scheme |-> "Bearer ", credential |-> "tok-u2"] }

\* candidateId of the body: seeded ids, an id not in the store, an id that is
\* no document path, and the missing/empty one
BodyCandidateIds == CandidateIds \cup {"X", "a/b", ""}

\* uid of the body of /make-admin: known users, an unknown one, missing
BodyUids == Subjects \cup {"ghost", ""}

NoUser == [uid |-> "", admin |-> FALSE]
NoResp == [status |-> 0, message |-> "", error |-> ""]

\* a request as its handler sees it: arg is the field the handler takes from
\* the body (candidateId, uid), "" while the handler has not run
Request(route, h, arg) == [route |-> route, header |-> h, arg |-> arg]
NoReq == Request("", NoHeader, "")

\* db.collection("candidates").doc(id) throws for an id that is no single
\* path segment
IsDocumentId(c) == c # "a/b"

\* error.message of errors that come from the store client or the identity
\* platform: internal detail
StoreUnavailable == "14 UNAVAILABLE: store unreachable"
StoreAborted == "10 ABORTED: too much contention on these documents"
BadDocumentPath == "Value for argument documentPath must point to a document"
NoSuchUser == "auth/user-not-found"
InternalDetail == {StoreUnavailable, StoreAborted, BadDocumentPath, NoSuchUser}

Reply(status, message) == [status |-> status, message |-> message, error |-> ""]
ReplyErr(status, message, error) ==
  [status |-> status, message |-> message, error |-> error]

----------------------------------------------------------------------------
(* Identity verifier and middleware *)

\* admin.auth().verifyIdToken: the subject of a valid token; "" when it throws
VerifyIdToken(credential) ==
  CASE credential = "tok-u1" -> "u1"
    [] credential = "tok-u2" -> "u2"
    [] OTHER -> ""

\* (mutant) any Authorization header passes the scheme check
HasHeader(h) == h # NoHeader

StartsWithBearer(h) == h # NoHeader /\ h.scheme = "Bearer "

\* verifyUser: the 401 it answers, or NoResp when it calls next()
VerifyUser(h) ==
  IF ~StartsWithBearer(h) THEN Reply(401, "Unauthorized")
  ELSE IF VerifyIdToken(h.credential) = "" THEN Reply(401, "Invalid or expired token")
  ELSE NoResp

\* the admin claim a token of subject s can carry: the claim as it is now, or
\* as it was when an older token was issued (claims are only ever granted)
TokenAdmin(s) == {FALSE, claims[s]}

\* admin.auth().setCustomUserClaims(uid, { admin: true })
SetCustomUserClaims(uid) == [claims EXCEPT ![uid] = TRUE]

\* (mutant) requireAdmin lets every verified user through
RequireAdminAnyUser(u) == NoResp

\* requireAdmin
RequireAdmin(u) ==
  IF ~u.admin THEN Reply(403, "Access denied (Admin only)") ELSE NoResp

----------------------------------------------------------------------------
(* Store *)

\* (mutant) voterDoc.exists is never true
VoterNeverExists(s) == FALSE

VoterExists(s) == s \in DOMAIN voters
CandidateExists(c) == c \in DOMAIN candidates

\* (mutant) FieldValue.increment(2)
IncrementTwice(v) == v + 2

\* FieldValue.increment(1)
Increment(v) == v + 1

\* transaction.set(voterRef, {...}): create or overwrite
SetVoter(s, c) ==
  [x \in DOMAIN voters \cup {s} |->
     IF x = s THEN [candidateId |-> c] ELSE voters[x]]

\* the documents an attempt has read so far
Touched(r) ==
  (IF pc[r] \in {"getCand", "commit"} THEN {<<"voters", user[r].uid>>} ELSE {})
  \cup (IF pc[r] = "commit" THEN {<<"candidates", req[r].arg>>} ELSE {})

\* (mutant) the voter document is read outside the transaction: the commit
\* validates the candidate alone
FreshCandidateOnly(r) == candidates[req[r].arg] = snap[r]

\* commit-time validation: what the attempt read is still what the store holds
Fresh(r) ==
  /\ ~VoterExists(user[r].uid)
  /\ candidates[req[r].arg] = snap[r]

\* another transaction in flight has read one of the same documents
Contended(r) ==
  \E r2 \in Requests \ {r} : Touched(r2) \cap Touched(r) # {}

----------------------------------------------------------------------------
TypeOK ==
  /\ DOMAIN voters \subseteq Subjects
  /\ \A s \in DOMAIN voters : voters[s].candidateId \in CandidateIds
  /\ candidates \in [CandidateIds -> Nat]
  /\ claims \in [Subjects -> BOOLEAN]
  /\ pc \in [Requests -> {"idle", "getVoter", "getCand", "commit", "done"}]
  /\ attempts \in [Requests -> 0..MaxAttempts]

Init ==
  /\ voters = << >>
  /\ candidates = Seeded
  /\ \E admins \in InitialAdmins : claims = [s \in Subjects |-> s \in admins]
  /\ pc = [r \in Requests |-> "idle"]
  /\ req = [r \in Requests |-> NoReq]
  /\ user = [r \in Requests |-> NoUser]
  /\ attempts = [r \in Requests |-> 0]
  /\ snap = [r \in Requests |-> 0]
  /\ resp = [r \in Requests |-> NoResp]

\* requests are numbered in the order they arrive
Arrives(r) == pc[r] = "idle" /\ (IF r = 1 THEN TRUE ELSE pc[r - 1] # "idle")

\* the response is sent: the handler is over, its locals are gone
Finish(r, response) ==
  /\ pc' = [pc EXCEPT ![r] = "done"]
  /\ resp' = [resp EXCEPT ![r] = response]
  /\ attempts' = [attempts EXCEPT ![r] = 0]
  /\ snap' = [snap EXCEPT ![r] = 0]

----------------------------------------------------------------------------
(* POST /api/vote *)

\* verifyUser, then the handler up to its first await (the transaction's
\* first read).  Of req.user the handler reads uid only (userId); the
\* token's admin claim is not kept for this route.
VoteRequest(r, h, c) ==
  /\ Arrives(r)
  /\ UNCHANGED <<voters, candidates, claims>>
  /\ IF VerifyUser(h) # NoResp
       THEN /\ req' = [req EXCEPT ![r] = Request("vote", h, "")]
            /\ Finish(r, VerifyUser(h))
            /\ UNCHANGED user
       ELSE /\ req' = [req EXCEPT ![r] = Request("vote", h, c)]
            /\ user' = [user EXCEPT ![r] =
                          [uid |-> VerifyIdToken(h.credential), admin |-> FALSE]]
            /\ IF c = ""
                 THEN Finish(r, Reply(400, "Candidate ID required"))
                 ELSE IF ~IsDocumentId(c)
                   THEN Finish(r, Reply(400, BadDocumentPath))
                   ELSE /\ pc' = [pc EXCEPT ![r] = "getVoter"]
                        /\ attempts' = [attempts EXCEPT ![r] = 1]
                        /\ UNCHANGED <<snap, resp>>

\* transaction.get(voterRef); if (voterDoc.exists) throw
TxGetVoter(r) ==
  /\ pc[r] = "getVoter"
  /\ UNCHANGED <<voters, candidates, claims, req, user>>
  /\ IF VoterExists(user[r].uid)
       THEN Finish(r, Reply(400, "You have already voted"))
       ELSE /\ pc' = [pc EXCEPT ![r] = "getCand"]
            /\ UNCHANGED <<attempts, snap, resp>>

\* (mutant) no existence check: the candidate is created by the write
TxGetCandidateUpsert(r) ==
  /\ pc[r] = "getCand"
  /\ UNCHANGED <<claims, req, user>>
  /\ IF ~CandidateExists(req[r].arg)
       THEN /\ voters' = SetVoter(user[r].uid, req[r].arg)
            /\ candidates' =
                 [c \in DOMAIN candidates \cup {req[r].arg} |->
                    IF c = req[r].arg THEN 1 ELSE candidates[c]]
            /\ Finish(r, Reply(200, "Vote successful!"))
       ELSE /\ pc' = [pc EXCEPT ![r] = "commit"]
            /\ snap' = [snap EXCEPT ![r] = candidates[req[r].arg]]
            /\ UNCHANGED <<voters, candidates, attempts, resp>>

\* transaction.get(candidateRef); if (!candidateDoc.exists) throw; the two
\* writes are buffered and the commit is requested
TxGetCandidate(r) ==
  /\ pc[r] = "getCand"
  /\ UNCHANGED <<voters, candidates, claims, req, user>>
  /\ IF ~CandidateExists(req[r].arg)
       THEN Finish(r, Reply(400, "Candidate not found"))
       ELSE /\ pc' = [pc EXCEPT ![r] = "commit"]
            /\ snap' = [snap EXCEPT ![r] = candidates[req[r].arg]]
            /\ UNCHANGED <<attempts, resp>>

\* (mutant) read-then-write of the count the attempt read, not validated
TxCommitCachedCount(r) ==
  /\ pc[r] = "commit"
  /\ ~VoterExists(user[r].uid)
  /\ voters' = SetVoter(user[r].uid, req[r].arg)
  /\ candidates' = [candidates EXCEPT ![req[r].arg] = snap[r] + 1]
  /\ Finish(r, Reply(200, "Vote successful!"))
  /\ UNCHANGED <<claims, req, user>>

\* (mutant) the two writes are not one unit: the increment is dropped
TxCommitVoterOnly(r) ==
  /\ pc[r] = "commit"
  /\ Fresh(r)
  /\ voters' = SetVoter(user[r].uid, req[r].arg)
  /\ Finish(r, Reply(200, "Vote successful!"))
  /\ UNCHANGED <<candidates, claims, req, user>>

\* the commit goes through: both writes at once, then 200
TxCommit(r) ==
  /\ pc[r] = "commit"
  /\ Fresh(r)
  /\ voters' = SetVoter(user[r].uid, req[r].arg)
  /\ candidates' = [candidates EXCEPT ![req[r].arg] = Increment(@)]
  /\ Finish(r, Reply(200, "Vote successful!"))
  /\ UNCHANGED <<claims, req, user>>

\* (mutant) a conflict is not retried: it reaches the caller at once
TxConflictSurfaced(r) ==
  /\ pc[r] = "commit"
  /\ ~Fresh(r) \/ Contended(r)
  /\ UNCHANGED <<voters, candidates, claims, req, user>>
  /\ Finish(r, Reply(400, StoreAborted))

\* the attempt lost a conflict: rolled back; the callback runs again, or
\* after the last attempt the store's error reaches the catch
TxConflict(r) ==
  /\ pc[r] = "commit"
  /\ ~Fresh(r) \/ Contended(r)
  /\ UNCHANGED <<voters, candidates, claims, req, user>>
  /\ IF attempts[r] < MaxAttempts
       THEN /\ pc' = [pc EXCEPT ![r] = "getVoter"]
            /\ attempts' = [attempts EXCEPT ![r] = @ + 1]
            /\ snap' = [snap EXCEPT ![r] = 0]
            /\ UNCHANGED resp
       ELSE Finish(r, Reply(400, StoreAborted))

\* the store cannot be reached during the transaction: its error reaches the
\* catch
TxStoreFailure(r) ==
  /\ pc[r] \in {"getVoter", "getCand", "commit"}
  /\ UNCHANGED <<voters, candidates, claims, req, user>>
  /\ Finish(r, Reply(400, StoreUnavailable))

----------------------------------------------------------------------------
(* GET /api/candidates, GET /api/voters, POST /make-admin *)

GetCandidates(r, up) ==
  /\ Arrives(r)
  /\ req' = [req EXCEPT ![r] = Request("candidates", NoHeader, "")]
  /\ UNCHANGED <<voters, candidates, claims, user>>
  /\ IF up
       THEN Finish(r, Reply(200, "[candidates]"))
       ELSE Finish(r, ReplyErr(500, "Error fetching candidates", StoreUnavailable))

GetVoters(r, h, up) ==
  /\ Arrives(r)
  /\ req' = [req EXCEPT ![r] = Request("voters", h, "")]
  /\ UNCHANGED <<voters, candidates, claims, user>>
  /\ IF VerifyUser(h) # NoResp
       THEN Finish(r, VerifyUser(h))
       ELSE IF up
         THEN Finish(r, Reply(200, "[voters]"))
         ELSE Finish(r, ReplyErr(500, "Error fetching voters", StoreUnavailable))

\* verifyUser, requireAdmin, then the handler; setCustomUserClaims throws
\* for a uid the identity platform does not know
MakeAdmin(r, h, uid, adm) ==
  /\ Arrives(r)
  /\ UNCHANGED <<voters, candidates>>
  /\ IF VerifyUser(h) # NoResp
       THEN /\ req' = [req EXCEPT ![r] = Request("makeAdmin", h, "")]
            /\ Finish(r, VerifyUser(h))
            /\ UNCHANGED <<user, claims>>
       ELSE /\ adm \in TokenAdmin(VerifyIdToken(h.credential))
            /\ user' = [user EXCEPT ![r] =
                          [uid |-> VerifyIdToken(h.credential), admin |-> adm]]
            /\ IF RequireAdmin(user'[r]) # NoResp
                 THEN /\ req' = [req EXCEPT ![r] = Request("makeAdmin", h, "")]
                      /\ Finish(r, RequireAdmin(user'[r]))
                      /\ UNCHANGED claims
                 ELSE /\ req' = [req EXCEPT ![r] = Request("makeAdmin", h, uid)]
                      /\ IF uid = ""
                           THEN /\ Finish(r, Reply(400, "UID required"))
                                /\ UNCHANGED claims
                           ELSE IF uid \notin Subjects
                             THEN /\ Finish(r, ReplyErr(500, "Error setting admin", NoSuchUser))
                                  /\ UNCHANGED claims
                             ELSE /\ claims' = SetCustomUserClaims(uid)
                                  /\ Finish(r, Reply(200, "User is now admin!"))

----------------------------------------------------------------------------
Next ==
  \/ \E r \in Requests, h \in Headers, c \in BodyCandidateIds :
       VoteRequest(r, h, c)
  \/ \E r \in Requests : TxGetVoter(r)
  \/ \E r \in Requests : TxGetCandidate(r)
  \/ \E r \in Requests : TxCommit(r)
  \/ \E r \in Requests : TxConflict(r)
  \/ \E r \in Requests : TxStoreFailure(r)
  \/ \E r \in Requests, up \in BOOLEAN : GetCandidates(r, up)
  \/ \E r \in Requests, h \in Headers, up \in BOOLEAN : GetVoters(r, h, up)
  \/ \E r \in Requests, h \in Headers, uid \in BodyUids, adm \in BOOLEAN :
       MakeAdmin(r, h, uid, adm)

Spec == Init /\ [][Next]_vars

\* the store eventually answers every await of a transaction, with a result
\* or with an error
FairSpec ==
  Spec /\ \A r \in Requests :
            WF_vars(TxGetVoter(r) \/ TxGetCandidate(r) \/ TxCommit(r)
                      \/ TxConflict(r) \/ TxStoreFailure(r))

----------------------------------------------------------------------------
(* Vocabulary of the properties *)

RECURSIVE SumVotes(_, _)
SumVotes(f, S) ==
  IF S = {} THEN 0
  ELSE LET c == CHOOSE x \in S : TRUE IN f[c] + SumVotes(f, S \ {c})

TotalVotes == SumVotes(candidates, DOMAIN candidates)
SeededTotal == SumVotes(Seeded, DOMAIN Seeded)

Done(r) == pc[r] = "done"
InTransaction(r) == pc[r] \in {"getVoter", "getCand", "commit"}

\* the requests that ran castVote(subject, candidateId): the vote handler
\* passed verifyUser and started the transaction
CastVotes ==
  {r \in Requests : /\ req[r].route = "vote"
                    /\ user[r].uid # ""
                    /\ req[r].arg # ""
                    /\ IsDocumentId(req[r].arg)}
CastVotesOf(s) == {r \in CastVotes : user[r].uid = s}
CastVotesFor(c) == {r \in CastVotes : req[r].arg = c}

Succeeded(r) == resp[r].status = 200 /\ resp[r].message = "Vote successful!"
AlreadyVoted(r) == resp[r].message = "You have already voted"
CandidateNotFound(r) == resp[r].message = "Candidate not found"
RetriesExhausted(r) == resp[r].message = StoreAborted
StoreDown(r) == resp[r].message = StoreUnavailable
GenericFailure(r) == RetriesExhausted(r) \/ StoreDown(r)

VotersOf(c) == {s \in DOMAIN voters : voters[s].candidateId = c}

----------------------------------------------------------------------------
(* C1 *)

\* the two attempts of a subject that made exactly two, both on candidates
\* of the store, both answered
TwoAttempts(s, A) ==
  /\ A = {r \in CastVotesOf(s) : req[r].arg \in DOMAIN candidates}
  /\ Cardinality(A) = 2
  /\ \A r \in A : Done(r)

\* C1 as claimed (read with the store reachable throughout): two castVote
\* attempts by one subject on existing candidates end with exactly one success
\* and one AlreadyVoted, one voter record for the subject, and one vote added
\* per subject that has a record.
C1Original ==
  \A s \in Subjects : \A A \in SUBSET Requests :
    (TwoAttempts(s, A) /\ \A r \in A : ~StoreDown(r)) =>
      /\ \E r1 \in A, r2 \in A : r1 # r2 /\ Succeeded(r1) /\ AlreadyVoted(r2)
      /\ VoterExists(s)
      /\ TotalVotes = SeededTotal + Cardinality(DOMAIN voters)

\* C1 as amended: of two castVote attempts by one subject on existing
\* candidates at most one succeeds; an attempt that does not succeed is
\* rejected AlreadyVoted unless it ends in a generic failure (conflict retries
\* exhausted, store error); when neither ends in a generic failure exactly one
\* succeeds and the other is AlreadyVoted; the subject has a voter record iff
\* one attempt succeeded, and the total of the vote counts has grown by 1 per
\* voter record, never by 2 for one subject.
C1Amended ==
  \A s \in Subjects : \A A \in SUBSET Requests :
    TwoAttempts(s, A) =>
      /\ Cardinality({r \in A : Succeeded(r)}) <= 1
      /\ \A r \in A : Succeeded(r) \/ AlreadyVoted(r) \/ GenericFailure(r)
      /\ (\A r \in A : ~GenericFailure(r)) =>
           \E r1 \in A, r2 \in A : r1 # r2 /\ Succeeded(r1) /\ AlreadyVoted(r2)
      /\ VoterExists(s) <=> \E r \in A : Succeeded(r)
      /\ TotalVotes = SeededTotal + Cardinality(DOMAIN voters)

\* a subject voted for one candidate and was rejected on a second attempt that
\* named another one
C1Witness ==
  \E s \in Subjects : \E r1 \in CastVotesOf(s), r2 \in CastVotesOf(s) :
    /\ Done(r1) /\ Done(r2)
    /\ Succeeded(r1) /\ AlreadyVoted(r2)
    /\ req[r2].arg \in DOMAIN candidates
    /\ req[r1].arg # req[r2].arg

----------------------------------------------------------------------------
(* C2 *)

\* the attempts on candidate c when they come from distinct subjects that
\* each made this one attempt only, and all are answered
DistinctVoters(c, A) ==
  /\ A = CastVotesFor(c)
  /\ Cardinality(A) >= 2
  /\ \A r \in A : CastVotesOf(user[r].uid) = {r}
  /\ \A r \in A : Done(r)

\* C2 as claimed (read with the store reachable throughout): N distinct
\* subjects voting once each for one existing candidate all commit, and the
\* candidate's count ends N higher.
C2Original ==
  \A c \in CandidateIds : \A A \in SUBSET Requests :
    (DistinctVoters(c, A) /\ \A r \in A : ~StoreDown(r)) =>
      /\ \A r \in A : Succeeded(r)
      /\ candidates[c] = Seeded[c] + Cardinality(A)

\* C2 as amended: each of the N attempts commits or ends in a generic failure
\* (conflict retries exhausted, store error), never in a rejection; the
\* candidate's count ends higher by exactly the number of attempts that
\* committed, so no committed increment is lost, and when none ends in a
\* generic failure all N commit and the count is N higher.
C2Amended ==
  \A c \in CandidateIds : \A A \in SUBSET Requests :
    DistinctVoters(c, A) =>
      /\ \A r \in A : Succeeded(r) \/ GenericFailure(r)
      /\ candidates[c] = Seeded[c] + Cardinality({r \in A : Succeeded(r)})
      /\ (\A r \in A : ~GenericFailure(r)) =>
           candidates[c] = Seeded[c] + Cardinality(A)

\* two subjects voted once each for the same candidate, both committed, and
\* both votes are counted
C2Witness ==
  \E c \in CandidateIds : \E A \in SUBSET Requests :
    /\ DistinctVoters(c, A)
    /\ \A r \in A : Succeeded(r)
    /\ candidates[c] = Seeded[c] + 2

----------------------------------------------------------------------------
(* C3 *)

\* request r, a castVote that names a candidate the store does not hold, is
\* answered in this step
AnswersAbsent(r) ==
  /\ pc[r] # "done" /\ pc'[r] = "done"
  /\ req'[r].route = "vote" /\ user'[r].uid # ""
  /\ req'[r].arg # "" /\ IsDocumentId(req'[r].arg)
  /\ req'[r].arg \notin DOMAIN candidates

----------------------------------------------------------------------------
(* C4 *)

\* the step creates the voter record s -> c and adds 1 to c's count, and
\* changes nothing else of the store
CommitsVote(s, c) ==
  /\ s \notin DOMAIN voters
  /\ DOMAIN voters' = DOMAIN voters \cup {s}
  /\ voters'[s].candidateId = c
  /\ \A x \in DOMAIN voters : voters'[x] = voters[x]
  /\ DOMAIN candidates' = DOMAIN candidates
  /\ candidates'[c] = candidates[c] + 1
  /\ \A x \in DOMAIN candidates \ {c} : candidates'[x] = candidates[x]

\* C4: a castVote that succeeds creates, in one step, exactly the voter record
\* of the request's authenticated subject and adds exactly 1 to the named
\* candidate's count; every other answer of POST /api/vote leaves the store
\* unchanged; the store changes in no other way, and in every state the votes
\* added equal the voter records.
C4Atomic ==
  /\ [][\A r \in Requests :
          (pc[r] # "done" /\ pc'[r] = "done" /\ req'[r].route = "vote") =>
            IF resp'[r].status = 200
              THEN CommitsVote(VerifyIdToken(req[r].header.credential), req[r].arg)
              ELSE voters' = voters /\ candidates' = candidates]_vars
  /\ [][(voters' # voters \/ candidates' # candidates) =>
          \E r \in Requests :
            /\ pc[r] = "commit" /\ pc'[r] = "done" /\ resp'[r].status = 200
            /\ \A r2 \in Requests \ {r} : pc'[r2] = pc[r2]]_vars
  /\ [](TotalVotes = SeededTotal + Cardinality(DOMAIN voters))

\* one vote was committed and a later attempt was refused for each reason
C4Witness ==
  /\ \E r \in CastVotes : Done(r) /\ Succeeded(r)
  /\ \E r \in CastVotes : Done(r) /\ ~Succeeded(r)
  /\ Cardinality(DOMAIN voters) = 1

----------------------------------------------------------------------------
(* C5 *)

DomainRejections == {"You have already voted", "Candidate not found"}

\* C5: POST /api/vote answers a domain rejection with 400 and its message, and
\* any other exception with 500 and a generic message; no answer of
\* /api/vote, /api/candidates or /api/voters carries internal error detail.
C5Policy ==
  \A r \in Requests :
    (Done(r) /\ req[r].route \in {"vote", "candidates", "voters"}) =>
      /\ resp[r].message \in DomainRejections => resp[r].status = 400
      /\ resp[r].message \notin InternalDetail
      /\ resp[r].error \notin InternalDetail
      /\ (req[r].route = "vote" /\ resp[r].status = 400) =>
           resp[r].message \in DomainRejections \cup {"Candidate ID required"}

----------------------------------------------------------------------------
(* C6 *)

\* C6: every castVote attempt is eventually answered, once and for good; a
\* conflict runs the transaction again from its first read, silently, while
\* attempts remain, and reaches the caller only from the last attempt;
\* AlreadyVoted and CandidateNotFound end the attempt at the read that finds
\* them, with no retry.
C6Outcome ==
  /\ \A r \in Requests : InTransaction(r) ~> Done(r)
  /\ [][\A r \in Requests :
          /\ Done(r) => pc'[r] = "done" /\ resp'[r] = resp[r]
          /\ (pc'[r] = "done") <=> (resp'[r] # NoResp)
          /\ (InTransaction(r) /\ attempts'[r] # attempts[r] /\ pc'[r] # "done") =>
               /\ pc[r] = "commit" /\ pc'[r] = "getVoter"
               /\ attempts'[r] = attempts[r] + 1 /\ attempts'[r] <= MaxAttempts
               /\ voters' = voters /\ candidates' = candidates
          /\ (pc[r] # "done" /\ resp'[r].message = StoreAborted) =>
               pc[r] = "commit" /\ attempts[r] = MaxAttempts
          /\ (pc[r] = "getVoter" /\ pc'[r] # pc[r] /\ user[r].uid \in DOMAIN voters) =>
               /\ pc'[r] = "done"
               /\ resp'[r].message \in {"You have already voted", StoreUnavailable}
          /\ (pc[r] = "getCand" /\ pc'[r] # pc[r] /\ req[r].arg \notin DOMAIN candidates) =>
               /\ pc'[r] = "done"
               /\ resp'[r].message \in {"Candidate not found", StoreUnavailable}
          /\ (pc[r] # "done" /\ resp'[r].message \in DomainRejections) =>
               pc[r] \in {"getVoter", "getCand"}]_vars

\* one attempt used up its retries and was answered with the failure, another
\* was answered AlreadyVoted or committed
C6Witness ==
  \E r1 \in CastVotes, r2 \in CastVotes :
    /\ Done(r1) /\ RetriesExhausted(r1)
    /\ Done(r2) /\ Succeeded(r2)

----------------------------------------------------------------------------
(* C7 *)

\* C7: a voter record, once it exists, is in every later state, naming the
\* same candidate.
C7Immutable ==
  [][\A s \in DOMAIN voters : s \in DOMAIN voters' /\ voters'[s] = voters[s]]_vars

\* a subject with a record tried again for another candidate and was refused;
\* the record still names the first candidate
C7Witness ==
  \E r1 \in CastVotes, r2 \in CastVotes :
    /\ user[r1].uid = user[r2].uid
    /\ Done(r1) /\ Succeeded(r1)
    /\ Done(r2) /\ AlreadyVoted(r2)
    /\ req[r2].arg \in CandidateIds \ {req[r1].arg}
    /\ voters[user[r1].uid].candidateId = req[r1].arg

----------------------------------------------------------------------------
(* C8 *)

\* a header verifyUser must refuse: missing, not "Bearer ", or a credential
\* the identity verifier rejects
BadCredential(h) ==
  \/ h.scheme = "" /\ h.credential = ""
  \/ h.scheme # "Bearer "
  \/ h.credential \notin {"tok-u1", "tok-u2"}

\* C8: POST /api/vote with such a header is answered 401 in the step that
\* receives it; no transaction is started and the store is unchanged.
C8Unauthorized ==
  [][\A r \in Requests :
       (pc[r] = "idle" /\ pc'[r] # "idle" /\ req'[r].route = "vote"
          /\ BadCredential(req'[r].header)) =>
         /\ pc'[r] = "done"
         /\ resp'[r].status = 401
         /\ attempts'[r] = 0
         /\ voters' = voters /\ candidates' = candidates]_vars

\* each of the three kinds of header was refused
C8Witness ==
  /\ \E r \in Requests :
       Done(r) /\ req[r].route = "vote" /\ req[r].header = NoHeader
         /\ resp[r].status = 401
  /\ \E r \in Requests :
       Done(r) /\ req[r].route = "vote" /\ resp[r].status = 401
         /\ req[r].header.scheme = "Bearer "

----------------------------------------------------------------------------
(* C9 *)

\* C9: /make-admin from a verified credential without the admin claim is
\* answered 403 and changes no claims; a subject gains the claim only in a
\* /make-admin step of a credential that carries it, naming that subject; so
\* when no subject is admin, none is in the next state either.
C9AdminOnly ==
  [][/\ \A r \in Requests :
          (pc[r] = "idle" /\ pc'[r] = "done" /\ req'[r].route = "makeAdmin"
             /\ ~BadCredential(req'[r].header) /\ ~user'[r].admin) =>
            resp'[r].status = 403 /\ claims' = claims
     /\ \A s \in Subjects :
          (claims'[s] # claims[s]) =>
            /\ claims'[s]
            /\ \E r \in Requests :
                 /\ pc[r] = "idle" /\ pc'[r] = "done"
                 /\ req'[r].route = "makeAdmin" /\ req'[r].arg = s
                 /\ user'[r].admin /\ claims[user'[r].uid]
                 /\ resp'[r].status = 200
     /\ (\A s \in Subjects : ~claims[s]) => (\A s \in Subjects : ~claims'[s])]_vars

\* a non-admin was refused, and an admin granted the claim to another subject
C9Witness ==
  /\ \E r \in Requests :
       Done(r) /\ req[r].route = "makeAdmin" /\ resp[r].status = 403
         /\ user[r].uid # ""
  /\ \E r \in Requests :
       Done(r) /\ req[r].route = "makeAdmin" /\ resp[r].status = 200
         /\ req[r].arg # user[r].uid

----------------------------------------------------------------------------
(* C10 *)

\* C10: every candidate's count is its seeded count plus the number of voter
\* records that name it, and every voter record names a candidate of the
\* store.
C10Tally ==
  /\ \A s \in DOMAIN voters : voters[s].candidateId \in DOMAIN candidates
  /\ \A c \in DOMAIN candidates :
       candidates[c] = Seeded[c] + Cardinality(VotersOf(c))

\* two records, for two different candidates
C10Witness ==
  /\ Cardinality(DOMAIN voters) = 2
  /\ \A c \in CandidateIds : Cardinality(VotersOf(c)) = 1

====
